---- MODULE Spec2Model ----
(***************************************************************************)
(* Model of main.py: trigger_openhab_if_match and the Pub/Sub entry point  *)
(* handle_camera_event_pubsub.  Every invocation is a process with its own *)
(* position (pc) and locals; sent is the wire: each POST with its answer.  *)
(***************************************************************************)
EXTENDS Integers, Sequences, FiniteSets, TLC

\* ------------------------------------------------------------------ bounds
NInv == 2
MaxClock == 2

\* ------------------------------------------------------- Python/JSON values
None == [t |-> "none"]
Str(s) == [t |-> "str", v |-> s]
Obj(f) == [t |-> "obj", v |-> f]
List(s) == [t |-> "list", v |-> s]
EmptyDict == [k \in {} |-> None]

IsObj(x) == x.t = "obj"

\* dict.get(key, default)
Get(d, k, default) == IF k \in DOMAIN d THEN d[k] ELSE default

Range(s) == {s[n] : n \in DOMAIN s}

\* the strings the model uses as haystacks are the needle itself or ""
IsSubstring(needle, hay) == needle = hay \/ needle = ""

\* x in container: key of a dict, element of a list, substring of a str;
\* any other right operand is a TypeError
InDefined(c) == c.t \in {"obj", "list", "str"}
In(x, c) ==
    CASE c.t = "obj" -> x \in DOMAIN c.v
      [] c.t = "list" -> Str(x) \in Range(c.v)
      [] c.t = "str" -> IsSubstring(x, c.v)
      [] OTHER -> FALSE

\* mutant: "is not None" in place of truthiness
TruthyNotNone(x) == x # None

\* truthiness of the optional token: None and "" are falsy
Truthy(x) == x.t = "str" /\ x.v # ""

\* mutant: datetime.now().isoformat(), a naive local time
IsoFormatNaive(now) == [time |-> now, tz |-> ""]

\* datetime.now(timezone.utc).isoformat()
IsoFormat(now) == [time |-> now, tz |-> "+00:00"]

\* ---------------------------------------------------------------- inputs
PERSON == "sdm.devices.events.CameraPerson.Person"
MOTION == "sdm.devices.events.CameraMotion.Motion"
STARTED == "STARTED"
ENDED == "ENDED"

\* the event's own timestamp: earlier than any reading of the clock
EventStamp == [time |-> 0, tz |-> "Z"]

KeySets == SUBSET {PERSON, MOTION}
EventsValues ==
    {Obj([k \in ks |-> Obj(EmptyDict)]) : ks \in KeySets}
        \cup {None, List(<<>>), List(<<Str(PERSON)>>), Str(""), Str(PERSON)}

ResourceUpdates ==
    {None, Obj([name \in {"name"} |-> Str("enterprises/p/devices/d")])}
        \cup {Obj([k \in {"name", "events"} |->
                    IF k = "events" THEN ev ELSE Str("enterprises/p/devices/d")])
                : ev \in EventsValues}

ThreadValues == {None, Str(STARTED), Str(ENDED)}

\* a key the payload does not carry
Absent == [t |-> "absent"]

MkMsg(ts, ru) ==
    [k \in {"timestamp"}
            \cup (IF ts = Absent THEN {} ELSE {"eventThreadState"})
            \cup (IF ru = Absent THEN {} ELSE {"resourceUpdate"}) |->
        CASE k = "timestamp" -> EventStamp
          [] k = "eventThreadState" -> ts
          [] OTHER -> ru]

\* the decoded event: a dict with a timestamp and any of the two fields
Messages ==
    {Obj(MkMsg(ts, ru)) : ts \in ThreadValues \cup {Absent},
                          ru \in ResourceUpdates \cup {Absent}}

\* what json.loads can return: an event dict, or JSON that is not an object
JsonValues == Messages \cup {List(<<>>)}

\* Pub/Sub data: base64 text; b64ok/utf8ok/json say which decoding stage accepts it
BadData ==
    {[b64ok |-> FALSE, utf8ok |-> FALSE, json |-> FALSE, value |-> None],
     [b64ok |-> TRUE, utf8ok |-> FALSE, json |-> FALSE, value |-> None],
     [b64ok |-> TRUE, utf8ok |-> TRUE, json |-> FALSE, value |-> None]}
Encode(j) == [b64ok |-> TRUE, utf8ok |-> TRUE, json |-> TRUE, value |-> j]

\* cloud_event.data
Envelope(d) == [k \in {"message"} |-> [m \in {"data"} |-> d]]
NoMessage == [k \in {"subscription"} |-> None]
NoData == [k \in {"message"} |-> [m \in {"messageId"} |-> None]]
Malformed == {NoMessage, NoData} \cup {Envelope(d) : d \in BadData}
CloudEvents == Malformed \cup {Envelope(Encode(j)) : j \in JsonValues}

Config(url, item, token, etype, tstate) ==
    [openhab_url |-> url, openhab_item |-> item, openhab_token |-> token,
     event_type |-> etype, thread_state |-> tstate]

\* the constants of handle_camera_event_pubsub and the defaults of the signature
HandlerConfig ==
    Config("https://openhab.local", "CameraPersonDetected", Str(""), PERSON, STARTED)

Tokens == {None, Str(""), Str("secret")}
Configs ==
    {Config("http://openhab.local:8080", item, tok, et, ts) :
        item \in {"CameraPersonDetected", "FrontDoor"}, tok \in Tokens,
        et \in {PERSON, MOTION}, ts \in {STARTED, ENDED}}

Statuses == {200, 204, 304, 404, 500}
NetErrors == {"Timeout", "ConnectionError"}
Response(s) == [status_code |-> s, text |-> IF s < 400 THEN "" ELSE "error page"]

\* what requests.post can end in
PostOutcomes ==
    {[kind |-> "response", response |-> Response(s), exc |-> "none"] : s \in Statuses}
        \cup {[kind |-> "raise", response |-> None, exc |-> e] : e \in NetErrors}

\* ----------------------------------------------------------------- state
VARIABLES clock, pc, entry, cloud_event, cfg, started,
          message_data, message, request, response, exc, success,
          sent, log, outcome

vars == <<clock, pc, entry, cloud_event, cfg, started,
          message_data, message, request, response, exc, success,
          sent, log, outcome>>
argv == <<entry, cloud_event, cfg, started>>

Inv == DOMAIN pc

NoExc == [name |-> "none", response |-> None]
Exc(n, r) == [name |-> n, response |-> r]
Pending == [kind |-> "pending"]
Returned(v) == [kind |-> "return", value |-> v]
Raised(e) == [kind |-> "raise", exc |-> e.name]

InitFor(I) ==
    /\ clock = 1
    /\ pc = [i \in I |-> "idle"]
    /\ entry = [i \in I |-> "none"]
    /\ cloud_event = [i \in I |-> NoMessage]
    /\ cfg = [i \in I |-> HandlerConfig]
    /\ started = [i \in I |-> 0]
    /\ message_data = [i \in I |-> None]
    /\ message = [i \in I |-> None]
    /\ request = [i \in I |-> None]
    /\ response = [i \in I |-> None]
    /\ exc = [i \in I |-> NoExc]
    /\ success = [i \in I |-> None]
    /\ sent = [i \in I |-> <<>>]
    /\ log = [i \in I |-> <<>>]
    /\ outcome = [i \in I |-> Pending]

Init == InitFor({1})

Entry(line, kind, arg) == [line |-> line, kind |-> kind, arg |-> arg]
Emit(i, es) == log' = [log EXCEPT ![i] = @ \o es]
Goto(i, l) == pc' = [pc EXCEPT ![i] = l]

\* the wall clock advances
Tick ==
    /\ clock < MaxClock
    /\ clock' = clock + 1
    /\ UNCHANGED <<pc, argv, message_data, message, request, response, exc,
                   success, sent, log, outcome>>

\* ------------------------------------------------- handle_camera_event_pubsub
\* the hosting runtime delivers a Pub/Sub event; lines 95-97 fix the configuration
Deliver(i, events) ==
    /\ pc[i] = "idle"
    /\ \E ce \in events :
        /\ cloud_event' = [cloud_event EXCEPT ![i] = ce]
        /\ entry' = [entry EXCEPT ![i] = "pubsub"]
        /\ cfg' = [cfg EXCEPT ![i] = HandlerConfig]
    /\ started' = [started EXCEPT ![i] = clock]
    /\ Goto(i, "h_decode")
    /\ UNCHANGED <<clock, message_data, message, request, response, exc,
                   success, sent, log, outcome>>

\* cloud_event.data["message"]["data"], base64.b64decode(...), .decode()
DecodeData(ce) ==
    IF "message" \notin DOMAIN ce THEN [ok |-> FALSE, err |-> "KeyError", v |-> None]
    ELSE IF "data" \notin DOMAIN ce["message"]
        THEN [ok |-> FALSE, err |-> "KeyError", v |-> None]
    ELSE LET d == ce["message"]["data"] IN
        IF ~d.b64ok THEN [ok |-> FALSE, err |-> "binascii.Error", v |-> None]
        ELSE IF ~d.utf8ok THEN [ok |-> FALSE, err |-> "UnicodeDecodeError", v |-> None]
        ELSE [ok |-> TRUE, err |-> "none", v |-> [t |-> "text", json |-> d.json, value |-> d.value]]

\* mutant: unparsable text is taken for an empty event
LoadsLenient(text) ==
    [ok |-> TRUE, err |-> "none", v |-> IF text.json THEN text.value ELSE Obj(EmptyDict)]

\* json.loads(message_data)
Loads(text) ==
    IF text.json THEN [ok |-> TRUE, err |-> "none", v |-> text.value]
    ELSE [ok |-> FALSE, err |-> "JSONDecodeError", v |-> None]

\* line 101
HDecode(i) ==
    /\ pc[i] = "h_decode"
    /\ LET r == DecodeData(cloud_event[i]) IN
        IF r.ok
        THEN /\ message_data' = [message_data EXCEPT ![i] = r.v]
             /\ Goto(i, "h_loads")
             /\ UNCHANGED exc
        ELSE /\ exc' = [exc EXCEPT ![i] = Exc(r.err, None)]
             /\ Goto(i, "h_except")
             /\ UNCHANGED message_data
    /\ UNCHANGED <<clock, argv, message, request, response, success, sent, log, outcome>>

\* line 102, then the call of line 105
HLoads(i) ==
    /\ pc[i] = "h_loads"
    /\ LET r == Loads(message_data[i]) IN
        IF r.ok
        THEN /\ message' = [message EXCEPT ![i] = r.v]
             /\ Goto(i, "t_thread")
             /\ UNCHANGED exc
        ELSE /\ exc' = [exc EXCEPT ![i] = Exc(r.err, None)]
             /\ Goto(i, "h_except")
             /\ UNCHANGED message
    /\ UNCHANGED <<clock, argv, message_data, request, response, success, sent, log, outcome>>

\* lines 112-115: report the result, return None
HResult(i) ==
    /\ pc[i] = "h_result"
    /\ Emit(i, IF success[i] = TRUE
                THEN <<Entry(113, "triggered", cfg[i].openhab_item)>>
                ELSE <<Entry(115, "no_match", "")>>)
    /\ outcome' = [outcome EXCEPT ![i] = Returned(None)]
    /\ Goto(i, "done")
    /\ UNCHANGED <<clock, argv, message_data, message, request, response, exc,
                   success, sent>>

\* lines 117-119: log and re-raise
HExcept(i) ==
    /\ pc[i] = "h_except"
    /\ Emit(i, <<Entry(118, "pubsub_error", exc[i].name)>>)
    /\ outcome' = [outcome EXCEPT ![i] = Raised(exc[i])]
    /\ Goto(i, "done")
    /\ UNCHANGED <<clock, argv, message_data, message, request, response, exc,
                   success, sent>>

\* ---------------------------------------------------- trigger_openhab_if_match
\* a caller other than the Pub/Sub handler calls the function with its own arguments
Call(i, messages, configs) ==
    /\ pc[i] = "idle"
    /\ \E m \in messages, c \in configs :
        /\ message' = [message EXCEPT ![i] = m]
        /\ cfg' = [cfg EXCEPT ![i] = c]
    /\ entry' = [entry EXCEPT ![i] = "direct"]
    /\ started' = [started EXCEPT ![i] = clock]
    /\ Goto(i, "t_thread")
    /\ UNCHANGED <<clock, cloud_event, message_data, request, response, exc,
                   success, sent, log, outcome>>

\* the function returns v: to line 112 of the handler, or to the direct caller
Return(i, v) ==
    IF entry[i] = "pubsub"
    THEN /\ success' = [success EXCEPT ![i] = v]
         /\ Goto(i, "h_result")
         /\ UNCHANGED outcome
    ELSE /\ outcome' = [outcome EXCEPT ![i] = Returned(v)]
         /\ Goto(i, "done")
         /\ UNCHANGED success

\* an exception leaves the function: to line 117 of the handler, or to the caller
Propagate(i, e) ==
    IF entry[i] = "pubsub"
    THEN /\ exc' = [exc EXCEPT ![i] = e]
         /\ Goto(i, "h_except")
         /\ UNCHANGED outcome
    ELSE /\ exc' = [exc EXCEPT ![i] = e]
         /\ outcome' = [outcome EXCEPT ![i] = Raised(e)]
         /\ Goto(i, "done")

\* mutant: the comparison inverted
ThreadMismatchInverted(m, thread_state) ==
    Get(m.v, "eventThreadState", None) = Str(thread_state)

\* mutant: a missing eventThreadState defaults to the expected one
ThreadMismatchDefault(m, thread_state) ==
    Get(m.v, "eventThreadState", Str(thread_state)) # Str(thread_state)

\* message.get("eventThreadState") != thread_state
ThreadMismatch(m, thread_state) == Get(m.v, "eventThreadState", None) # Str(thread_state)

\* lines 32-34
TThread(i) ==
    /\ pc[i] = "t_thread"
    /\ IF ~IsObj(message[i])
       THEN /\ Propagate(i, Exc("AttributeError", None))
            /\ UNCHANGED <<success, log>>
       ELSE IF ThreadMismatch(message[i], cfg[i].thread_state)
       THEN /\ Emit(i, <<Entry(33, "thread_mismatch", cfg[i].thread_state)>>)
            /\ Return(i, FALSE)
            /\ UNCHANGED exc
       ELSE /\ Goto(i, "t_events")
            /\ UNCHANGED <<success, log, exc, outcome>>
    /\ UNCHANGED <<clock, argv, message_data, message, request, response, sent>>

\* mutant: message["resourceUpdate"]["events"], a KeyError when a key is missing
EventsStrict(m) ==
    IF "resourceUpdate" \notin DOMAIN m.v
    THEN [ok |-> FALSE, err |-> "KeyError", v |-> None]
    ELSE IF ~IsObj(m.v["resourceUpdate"])
    THEN [ok |-> FALSE, err |-> "TypeError", v |-> None]
    ELSE IF "events" \notin DOMAIN m.v["resourceUpdate"].v
    THEN [ok |-> FALSE, err |-> "KeyError", v |-> None]
    ELSE [ok |-> TRUE, err |-> "none", v |-> m.v["resourceUpdate"].v["events"]]

\* lines 37-38: the two .get calls; ok is FALSE where one of them raises
Events(m) ==
    LET resource_update == Get(m.v, "resourceUpdate", Obj(EmptyDict)) IN
    IF ~IsObj(resource_update)
    THEN [ok |-> FALSE, err |-> "AttributeError", v |-> None]
    ELSE [ok |-> TRUE, err |-> "none", v |-> Get(resource_update.v, "events", Obj(EmptyDict))]

\* lines 37-42
TEvents(i) ==
    /\ pc[i] = "t_events"
    /\ LET ev == Events(message[i]) IN
       IF ~ev.ok
       THEN /\ Propagate(i, Exc(ev.err, None))
            /\ UNCHANGED <<success, log>>
       ELSE IF ~InDefined(ev.v)
       THEN /\ Propagate(i, Exc("TypeError", None))
            /\ UNCHANGED <<success, log>>
       ELSE IF ~In(cfg[i].event_type, ev.v)
       THEN /\ Emit(i, <<Entry(41, "event_type_not_found", cfg[i].event_type)>>)
            /\ Return(i, FALSE)
            /\ UNCHANGED exc
       ELSE /\ Goto(i, "t_build")
            /\ UNCHANGED <<success, log, exc, outcome>>
    /\ UNCHANGED <<clock, argv, message_data, message, request, response, sent>>

\* line 50
ItemUrl(c) == c.openhab_url \o "/rest/items/" \o c.openhab_item

\* lines 53-62
Headers(c) ==
    LET base == ("Content-Type" :> "text/plain") @@ ("Accept" :> "application/json")
                    @@ ("CF-Access-Client-Id" :> "") @@ ("CF-Access-Client-Secret" :> "")
    IN IF Truthy(c.openhab_token)
       THEN base @@ ("Authorization" :> ("Bearer " \o c.openhab_token.v))
       ELSE base

\* lines 66-69: the arguments of requests.post
Request(c, now) ==
    [t |-> "request", url |-> ItemUrl(c), data |-> IsoFormat(now),
     headers |-> Headers(c), timeout |-> 10]

\* lines 47-62: the timestamp is read from the clock here
TBuild(i) ==
    /\ pc[i] = "t_build"
    /\ request' = [request EXCEPT ![i] = Request(cfg[i], clock)]
    /\ Goto(i, "t_post")
    /\ UNCHANGED <<clock, argv, message_data, message, response, exc, success,
                   sent, log, outcome>>

\* mutant: response is a module-level global, one for all invocations
TPostShared(i) ==
    /\ pc[i] = "t_post"
    /\ \E o \in PostOutcomes :
        /\ sent' = [sent EXCEPT ![i] = Append(@, [request |-> request[i], answer |-> o])]
        /\ IF o.kind = "response"
           THEN /\ response' = [j \in Inv |-> o.response]
                /\ Goto(i, "t_raise_for_status")
                /\ UNCHANGED exc
           ELSE /\ exc' = [exc EXCEPT ![i] = Exc(o.exc, None)]
                /\ Goto(i, "t_except")
                /\ UNCHANGED response
    /\ UNCHANGED <<clock, argv, message_data, message, request, success, log, outcome>>

\* lines 65-70: the POST goes out; the endpoint answers, or the network fails
TPost(i) ==
    /\ pc[i] = "t_post"
    /\ \E o \in PostOutcomes :
        /\ sent' = [sent EXCEPT ![i] = Append(@, [request |-> request[i], answer |-> o])]
        /\ IF o.kind = "response"
           THEN /\ response' = [response EXCEPT ![i] = o.response]
                /\ Goto(i, "t_raise_for_status")
                /\ UNCHANGED exc
           ELSE /\ exc' = [exc EXCEPT ![i] = Exc(o.exc, None)]
                /\ Goto(i, "t_except")
                /\ UNCHANGED response
    /\ UNCHANGED <<clock, argv, message_data, message, request, success, log, outcome>>

\* Response.raise_for_status raises HTTPError for 4xx and 5xx, and for nothing else
RaisesForStatus(status_code) == 400 <= status_code /\ status_code < 600

\* line 72
TRaiseForStatus(i) ==
    /\ pc[i] = "t_raise_for_status"
    /\ IF RaisesForStatus(response[i].status_code)
       THEN /\ exc' = [exc EXCEPT ![i] = Exc("HTTPError", response[i])]
            /\ Goto(i, "t_except")
       ELSE /\ Goto(i, "t_success")
            /\ UNCHANGED exc
    /\ UNCHANGED <<clock, argv, message_data, message, request, response, success,
                   sent, log, outcome>>

\* lines 74-75
TSuccess(i) ==
    /\ pc[i] = "t_success"
    /\ Emit(i, <<Entry(74, "success", request[i].data)>>)
    /\ Return(i, TRUE)
    /\ UNCHANGED <<clock, argv, message_data, message, request, response, exc, sent>>

\* lines 77-81: except RequestException: log it, with status and body if it has a response
TExcept(i) ==
    /\ pc[i] = "t_except"
    /\ Emit(i, <<Entry(78, "error", exc[i].name)>> \o
                (IF exc[i].response # None
                 THEN <<Entry(80, "status", exc[i].response.status_code),
                        Entry(81, "body", exc[i].response.text)>>
                 ELSE <<>>))
    /\ Goto(i, "t_reraise")
    /\ UNCHANGED <<clock, argv, message_data, message, request, response, exc,
                   success, sent, outcome>>

\* mutant: the except clause tries the POST again instead of raising
TReraiseRetry(i) ==
    /\ pc[i] = "t_reraise"
    /\ Goto(i, "t_post")
    /\ UNCHANGED <<clock, argv, message_data, message, request, response, exc,
                   success, sent, log, outcome>>

\* line 82
TReraise(i) ==
    /\ pc[i] = "t_reraise"
    /\ Propagate(i, exc[i])
    /\ UNCHANGED <<clock, argv, message_data, message, request, response,
                   success, sent, log>>

\* ------------------------------------------------------------ specifications
Next ==
    \/ \E i \in Inv : Deliver(i, CloudEvents)
    \/ \E i \in Inv : Call(i, Messages, Configs)
    \/ \E i \in Inv : HDecode(i)
    \/ \E i \in Inv : HLoads(i)
    \/ \E i \in Inv : HResult(i)
    \/ \E i \in Inv : HExcept(i)
    \/ \E i \in Inv : TThread(i)
    \/ \E i \in Inv : TEvents(i)
    \/ \E i \in Inv : TBuild(i)
    \/ \E i \in Inv : TPost(i)
    \/ \E i \in Inv : TRaiseForStatus(i)
    \/ \E i \in Inv : TSuccess(i)
    \/ \E i \in Inv : TExcept(i)
    \/ \E i \in Inv : TReraise(i)
    \/ Tick

Spec == Init /\ [][Next]_vars

\* several invocations in flight at once, as the hosting runtime may dispatch them;
\* an invocation only reads the clock, so the concurrent runs are taken at one instant
ConcMessages ==
    {Obj(MkMsg(ts, ru)) :
        ts \in {Str(STARTED), Str(ENDED)},
        ru \in {Absent, Obj([k \in {"events"} |-> Obj([e \in {PERSON} |-> Obj(EmptyDict)])])}}
ConcEvents == {Envelope(d) : d \in BadData} \cup {Envelope(Encode(j)) : j \in ConcMessages}

ConcInit == InitFor(1 .. NInv)

ConcNext ==
    \/ \E i \in Inv : Deliver(i, ConcEvents)
    \/ \E i \in Inv : HDecode(i)
    \/ \E i \in Inv : HLoads(i)
    \/ \E i \in Inv : HResult(i)
    \/ \E i \in Inv : HExcept(i)
    \/ \E i \in Inv : TThread(i)
    \/ \E i \in Inv : TEvents(i)
    \/ \E i \in Inv : TBuild(i)
    \/ \E i \in Inv : TPost(i)
    \/ \E i \in Inv : TRaiseForStatus(i)
    \/ \E i \in Inv : TSuccess(i)
    \/ \E i \in Inv : TExcept(i)
    \/ \E i \in Inv : TReraise(i)

SpecConc == ConcInit /\ [][ConcNext]_vars

\* ------------------------------------------------------- observations
\* number of POSTs the invocation has put on the wire
Posts(i) == Len(sent[i])

\* the call of trigger_openhab_if_match has been made and has ended
TriggerEnded(i) == message[i] # None /\ pc[i] \in {"h_result", "h_except", "done"}

\* ... by returning v
TriggerReturned(i, v) ==
    /\ TriggerEnded(i)
    /\ exc[i] = NoExc
    /\ IF entry[i] = "pubsub" THEN success[i] = v ELSE outcome[i] = Returned(v)

\* ... by raising
TriggerRaised(i) == TriggerEnded(i) /\ exc[i] # NoExc

\* the event's eventThreadState equals the expected thread state
ThreadStateEquals(i) ==
    /\ IsObj(message[i])
    /\ "eventThreadState" \in DOMAIN message[i].v
    /\ message[i].v["eventThreadState"] = Str(cfg[i].thread_state)

HasResourceUpdate(m) == IsObj(m) /\ "resourceUpdate" \in DOMAIN m.v
HasEvents(m) ==
    /\ HasResourceUpdate(m)
    /\ IsObj(m.v["resourceUpdate"])
    /\ "events" \in DOMAIN m.v["resourceUpdate"].v
EventsField(m) == m.v["resourceUpdate"].v["events"]

\* the expected event type is a key present in resourceUpdate.events
EventTypeIsKey(i) ==
    /\ HasEvents(message[i])
    /\ IsObj(EventsField(message[i]))
    /\ cfg[i].event_type \in DOMAIN EventsField(message[i]).v

BothHold(i) == ThreadStateEquals(i) /\ EventTypeIsKey(i)

\* resourceUpdate.events is a JSON array or a JSON string
EventsIsArrayOrString(m) == HasEvents(m) /\ EventsField(m).t \in {"list", "str"}

PostIffBothHold(i) ==
    /\ Posts(i) >= 1 => BothHold(i)
    /\ TriggerEnded(i) /\ BothHold(i) => Posts(i) = 1

C2_AtMostOnePost == \A i \in Inv : Posts(i) <= 1

C2_Witness ==
    \E i \in Inv :
        /\ pc[i] = "done"
        /\ Posts(i) = 1
        /\ sent[i][1].answer.kind = "raise"
        /\ sent[i][1].answer.exc = "Timeout"

\* C3: when eventThreadState differs from the expected state, or is absent, the
\* function goes no further than the first check: it returns False and issues no
\* POST, whatever resourceUpdate.events holds.
C3_ThreadMismatchReturnsFalse ==
    \A i \in Inv :
        IsObj(message[i]) /\ ~ThreadStateEquals(i) =>
            /\ Posts(i) = 0
            /\ pc[i] \in {"t_thread", "h_result", "done"}
            /\ TriggerEnded(i) => TriggerReturned(i, FALSE)

C3_Witness ==
    \E i \in Inv :
        /\ TriggerReturned(i, FALSE)
        /\ "eventThreadState" \notin DOMAIN message[i].v
        /\ EventTypeIsKey(i)

\* the thread state matches and resourceUpdate is missing, or events is missing,
\* or events is a mapping without the expected key
C4_Case(i) ==
    /\ ThreadStateEquals(i)
    /\ \/ ~HasResourceUpdate(message[i])
       \/ IsObj(message[i].v["resourceUpdate"]) /\ ~HasEvents(message[i])
       \/ HasEvents(message[i]) /\ IsObj(EventsField(message[i])) /\ ~EventTypeIsKey(i)

\* C4: in that case the match check raises nothing: the function returns False
\* and issues no POST.
C4_MissingFieldsReturnFalse ==
    \A i \in Inv :
        message[i] # None /\ C4_Case(i) =>
            /\ Posts(i) = 0
            /\ exc[i] = NoExc
            /\ pc[i] \in {"t_thread", "t_events", "h_result", "done"}
            /\ TriggerEnded(i) => TriggerReturned(i, FALSE)

C4_Witness ==
    \E i \in Inv :
        /\ TriggerReturned(i, FALSE)
        /\ ThreadStateEquals(i)
        /\ ~HasResourceUpdate(message[i])

\* the invocation has sent a POST and the answer was ...
Answer(i) == sent[i][1].answer
SuccessStatus(code) == 200 <= code /\ code < 300
AnsweredSuccess(i) ==
    Posts(i) >= 1 /\ Answer(i).kind = "response" /\ SuccessStatus(Answer(i).response.status_code)
AnsweredFailure(i) ==
    Posts(i) >= 1 /\ (Answer(i).kind = "raise" \/ ~SuccessStatus(Answer(i).response.status_code))

\* C5: when both conditions hold and the endpoint answers with a success status,
\* the invocation has sent exactly one POST, to {base_url}/rest/items/{item_name},
\* whose body is a UTC timestamp read from the clock during the call and not the
\* event's own timestamp, and once the function has ended it has returned True.
C5_SuccessfulTrigger ==
    \A i \in Inv :
        message[i] # None /\ BothHold(i) /\ AnsweredSuccess(i) =>
            /\ Posts(i) = 1
            /\ sent[i][1].request.url =
                    cfg[i].openhab_url \o "/rest/items/" \o cfg[i].openhab_item
            /\ sent[i][1].request.data.tz = "+00:00"
            /\ sent[i][1].request.data.time \in started[i] .. clock
            /\ sent[i][1].request.data # message[i].v["timestamp"]
            /\ pc[i] \in {"t_raise_for_status", "t_success", "h_result", "done"}
            /\ TriggerEnded(i) => TriggerReturned(i, TRUE)

C5_Witness ==
    \E i \in Inv :
        /\ BothHold(i) /\ AnsweredSuccess(i) /\ TriggerReturned(i, TRUE)
        /\ sent[i][1].request.data.time > started[i]

HasLogged(i, kind) == \E n \in DOMAIN log[i] : log[i][n].kind = kind

\* C6 as stated: when both conditions hold and the POST ends in a status outside
\* the success range or in a network failure, the function returns neither True
\* nor False: it logs the error (with status and body when there is a response)
\* and only then raises.
C6_FailureIsLoggedAndRaised ==
    \A i \in Inv :
        message[i] # None /\ BothHold(i) /\ AnsweredFailure(i) =>
            /\ pc[i] \in {"t_raise_for_status", "t_except", "t_reraise", "h_except", "done"}
            /\ pc[i] \in {"t_reraise", "h_except", "done"} =>
                /\ HasLogged(i, "error")
                /\ Answer(i).kind = "response" =>
                        HasLogged(i, "status") /\ HasLogged(i, "body")
            /\ TriggerEnded(i) => TriggerRaised(i)

\* a malformed envelope: no message or data field, or data that fails base64
\* decoding, UTF-8 decoding or JSON parsing
MalformedEnvelope(i) ==
    /\ entry[i] = "pubsub"
    /\ \/ "message" \notin DOMAIN cloud_event[i]
       \/ "data" \notin DOMAIN cloud_event[i]["message"]
       \/ ~cloud_event[i]["message"]["data"].json

\* C7: a malformed envelope makes the handler raise with nothing processed: the
\* match check is never entered and no POST is issued.
C7_MalformedEnvelopePropagates ==
    \A i \in Inv :
        MalformedEnvelope(i) =>
            /\ pc[i] \in {"h_decode", "h_loads", "h_except", "done"}
            /\ message[i] = None
            /\ Posts(i) = 0
            /\ ~HasLogged(i, "thread_mismatch") /\ ~HasLogged(i, "event_type_not_found")
            /\ pc[i] = "done" => outcome[i].kind = "raise" /\ HasLogged(i, "pubsub_error")

C7_Witness ==
    \E i \in Inv :
        /\ MalformedEnvelope(i)
        /\ pc[i] = "done"
        /\ outcome[i] = [kind |-> "raise", exc |-> "JSONDecodeError"]

\* C8 as stated: the handler ends in one of three ways: normally after a
\* successful POST, normally after a logged non-match with no POST, or by raising;
\* it never ends normally after a failed POST or a failed decode.
C8_NoSilentFailure ==
    \A i \in Inv :
        entry[i] = "pubsub" /\ pc[i] = "done" =>
            \/ /\ outcome[i].kind = "return"
               /\ Posts(i) = 1 /\ AnsweredSuccess(i)
               /\ HasLogged(i, "triggered")
            \/ /\ outcome[i].kind = "return"
               /\ Posts(i) = 0
               /\ HasLogged(i, "thread_mismatch") \/ HasLogged(i, "event_type_not_found")
               /\ HasLogged(i, "no_match")
            \/ /\ outcome[i].kind = "raise"
               /\ HasLogged(i, "pubsub_error")

\* the token is configured: neither missing (None) nor the empty string
TokenConfigured(c) == c.openhab_token # None /\ c.openhab_token # Str("")

\* C9: every POST carries Content-Type: text/plain, Accept: application/json and
\* the two access-control headers with empty values, and carries
\* Authorization: Bearer <token> exactly when a token is configured.
C9_Headers ==
    \A i \in Inv : \A n \in DOMAIN sent[i] :
        LET h == sent[i][n].request.headers IN
        /\ {"Content-Type", "Accept", "CF-Access-Client-Id", "CF-Access-Client-Secret"}
                \subseteq DOMAIN h
        /\ h["Content-Type"] = "text/plain"
        /\ h["Accept"] = "application/json"
        /\ h["CF-Access-Client-Id"] = "" /\ h["CF-Access-Client-Secret"] = ""
        /\ "Authorization" \in DOMAIN h <=> TokenConfigured(cfg[i])
        /\ "Authorization" \in DOMAIN h =>
                h["Authorization"] = "Bearer " \o cfg[i].openhab_token.v
        /\ entry[i] = "pubsub" => "Authorization" \notin DOMAIN h

C9_Witness ==
    \E i \in Inv :
        /\ Posts(i) = 1
        /\ cfg[i].openhab_token = Str("secret")
        /\ sent[i][1].request.headers["Authorization"] = "Bearer secret"

C9_WitnessEmptyToken ==
    \E i \in Inv :
        /\ Posts(i) = 1
        /\ cfg[i].openhab_token = Str("")
        /\ "Authorization" \notin DOMAIN sent[i][1].request.headers

\* what the handler does with event ce when it runs alone and the endpoint gives
\* answer to its POST: the outcome, and the number of POSTs
Alone(ce, answer) ==
    LET raised(e) == [outcome |-> [kind |-> "raise", exc |-> e], posts |-> 0]
        nomatch == [outcome |-> Returned(None), posts |-> 0]
        d == DecodeData(ce)
        j == Loads(d.v)
        ev == Events(j.v)
    IN  IF ~d.ok THEN raised(d.err)
        ELSE IF ~j.ok THEN raised(j.err)
        ELSE IF ~IsObj(j.v) THEN raised("AttributeError")
        ELSE IF ThreadMismatch(j.v, HandlerConfig.thread_state) THEN nomatch
        ELSE IF ~ev.ok THEN raised(ev.err)
        ELSE IF ~InDefined(ev.v) THEN raised("TypeError")
        ELSE IF ~In(HandlerConfig.event_type, ev.v) THEN nomatch
        ELSE IF answer.kind = "raise"
            THEN [outcome |-> [kind |-> "raise", exc |-> answer.exc], posts |-> 1]
        ELSE IF RaisesForStatus(answer.response.status_code)
            THEN [outcome |-> [kind |-> "raise", exc |-> "HTTPError"], posts |-> 1]
        ELSE [outcome |-> Returned(None), posts |-> 1]

NoAnswer == [kind |-> "none"]

\* C10: under every interleaving of the invocations, each one ends as it would
\* have ended alone: its outcome and its number of POSTs are a function of its own
\* event and of the answer to its own POST, whatever the others were given, did
\* or got.
C10_Independent ==
    \A i \in Inv :
        entry[i] = "pubsub" /\ pc[i] = "done" =>
            LET alone == Alone(cloud_event[i], IF Posts(i) >= 1 THEN Answer(i) ELSE NoAnswer)
            IN  outcome[i] = alone.outcome /\ Posts(i) = alone.posts

C10_Witness ==
    \E i, j \in Inv :
        /\ i # j
        /\ pc[i] = "done" /\ pc[j] = "done"
        /\ cloud_event[i] = cloud_event[j]
        /\ Posts(i) = 1 /\ Posts(j) = 1
        /\ Answer(i) # Answer(j)
        /\ outcome[i] # outcome[j]

====
